---- MODULE Spec2Model ----
(***************************************************************************)
(* Notes API service (database/notes_api/server.js): an Express handler    *)
(* layer over one SQLite table                                             *)
(*   notes(id INTEGER PRIMARY KEY AUTOINCREMENT, title, content,           *)
(*         created_at).                                                    *)
(* A request is received, its handler runs synchronously up to its first   *)
(* await (validation, nowIso(), db.run/db.get/db.all), the store executes  *)
(* the statement atomically at some later point and its callback resumes   *)
(* the handler with the result.  Several requests may be in flight.        *)
(***************************************************************************)
EXTENDS Integers, Sequences, FiniteSets, TLC

\* ---------------------------------------------------------------- bounds
MaxRequests == 3
MaxNotes == 2
MaxSlots == 2
MaxClock == 1
MaxFairRequests == 2

Slots == 1..MaxSlots

\* ------------------------------------------------------- request values
\* Sample request strings: empty, whitespace-only, plain, padded on both
\* sides, and a second plain one.
Strings == {<<>>, <<" ">>, <<"a">>, <<" ", "a", " ">>, <<"b">>}

\* A JSON body field: absent (undefined), a non-string (null, number, ...),
\* or a string.
Undefined == [t |-> "undefined", s |-> <<>>]
NonString == [t |-> "other", s |-> <<>>]
Str(s) == [t |-> "string", s |-> s]
BodyValues == {Undefined, NonString} \cup {Str(s) : s \in Strings}

\* Number(req.params.id): an integer, or a number that is no integer
\* (1.5 from "1.5", NaN from "abc").
IdParams ==
  {[kind |-> "nonint", n |-> 1]} \cup {[kind |-> "int", n |-> i] : i \in -1..MaxNotes}

NoReq == [id |-> [kind |-> "int", n |-> 0], title |-> Undefined, content |-> Undefined]

\* String.prototype.trim: strip leading and trailing whitespace.
RECURSIVE TrimLeft(_)
TrimLeft(s) ==
  IF s # <<>> /\ Head(s) = " " THEN TrimLeft(Tail(s)) ELSE s

RECURSIVE TrimRight(_)
TrimRight(s) ==
  IF s # <<>> /\ s[Len(s)] = " " THEN TrimRight(SubSeq(s, 1, Len(s) - 1)) ELSE s

Trim(s) == TrimRight(TrimLeft(s))

\* Mutation: the length is tested without trim()
IsBlankNoTrim(v) == v.t # "string" \/ Len(v.s) = 0

\* typeof v !== "string" || v.trim().length === 0
IsBlank(v) == v.t # "string" \/ Len(Trim(v.s)) = 0

\* Mutation: id < 0 in place of id <= 0
InvalidIdZeroAccepted(p) == p.kind # "int" \/ p.n < 0

\* !Number.isInteger(id) || id <= 0
InvalidId(p) == p.kind # "int" \/ p.n <= 0

\* ------------------------------------------------------------ timestamps
\* new Date().toISOString(): zero-padded fixed-width decimal fields, most
\* significant first (modelled by a two-digit field).
toISOString(t) == <<t \div 10, t % 10>>

\* SQLite compares TEXT with the BINARY collation: bytewise, left to right.
RECURSIVE TextLess(_, _)
TextLess(a, b) ==
  IF b = <<>> THEN FALSE
  ELSE IF a = <<>> THEN TRUE
  ELSE IF Head(a) # Head(b) THEN Head(a) < Head(b)
  ELSE TextLess(Tail(a), Tail(b))

\* ----------------------------------------------------------------- state
VARIABLES
  notes,      \* rows of table notes
  seq,        \* sqlite_sequence: largest rowid ever handed out
  pc,         \* per slot: idle, received, await
  handler,    \* per slot: the route that is handling the request
  req,        \* per slot: the parsed request (params.id, body.title, body.content)
  stmt,       \* per slot: the statement handed to db.run/db.get/db.all
  sent,       \* the response written by the latest step, if it wrote one
  issued,     \* number of requests received so far
  everIds,    \* history: every id an INSERT has assigned
  deletedIds, \* history: every id a DELETE has removed
  completed,  \* history: ids whose Create has been answered 201
  seen,       \* history, per slot: completed, as of the arrival of a Create
  hb          \* history: <<n1, n2>>: Create of n1 was answered before Create of n2 arrived

vars == <<notes, seq, pc, handler, req, stmt, sent, issued,
          everIds, deletedIds, completed, seen, hb>>

store == <<notes, seq>>
history == <<everIds, deletedIds, completed, hb>>

NoStmt == [kind |-> "none", id |-> 0, setTitle |-> FALSE, title |-> <<>>,
           setContent |-> FALSE, content |-> <<>>, created_at |-> <<>>]
NoResp == [status |-> 0, error |-> "", body |-> "none", rows |-> <<>>]
NoSent == [slot |-> 0, handler |-> "none", req |-> NoReq, stmt |-> NoStmt,
           resp |-> NoResp, err |-> FALSE]

ErrorResp(status, msg) == [status |-> status, error |-> msg, body |-> "error", rows |-> <<>>]

\* nowIso(): new Date() reads t off the system clock
nowIso(t) == toISOString(t)

\* The readings new Date() can return: wall-clock time, which may have
\* advanced, stood still, or been set back (NTP step, operator) since the
\* previous reading.
Times == 0..MaxClock

\* ------------------------------------------------------------ SQL engine
\* Mutation: INTEGER PRIMARY KEY without AUTOINCREMENT: one more than the largest
\* rowid now in the table
NextRowidNoAutoincrement ==
  IF notes = {} THEN 1
  ELSE (CHOOSE m \in {r.id : r \in notes} : \A r \in notes : r.id <= m) + 1

\* AUTOINCREMENT: the new rowid is one more than the largest rowid ever used.
NextRowid == seq + 1

InsertRow(s) ==
  [id |-> NextRowid, title |-> s.title, content |-> s.content, created_at |-> s.created_at]

\* Mutation: the row is rewritten, created_at included
UpdateRowRestamped(r, s) ==
  [id |-> r.id,
   title |-> IF s.setTitle THEN s.title ELSE r.title,
   content |-> IF s.setContent THEN s.content ELSE r.content,
   created_at |-> s.created_at]

\* Mutation: SET title = ?, content = ? whatever the body supplied
UpdateRowAllFields(r, s) ==
  [id |-> r.id, title |-> s.title, content |-> s.content, created_at |-> r.created_at]

\* Mutation: only the first assignment of the SET list is applied
UpdateRowFirstFieldOnly(r, s) ==
  [id |-> r.id,
   title |-> IF s.setTitle THEN s.title ELSE r.title,
   content |-> IF s.setContent /\ ~s.setTitle THEN s.content ELSE r.content,
   created_at |-> r.created_at]

\* UPDATE notes SET <updates> WHERE id = ?
UpdateRow(r, s) ==
  [id |-> r.id,
   title |-> IF s.setTitle THEN s.title ELSE r.title,
   content |-> IF s.setContent THEN s.content ELSE r.content,
   created_at |-> r.created_at]

\* Mutation: INSERT OR REPLACE instead of UPDATE
UpdateRowsUpsert(rows, s) ==
  IF \E r \in rows : r.id = s.id
  THEN {IF r.id = s.id THEN UpdateRow(r, s) ELSE r : r \in rows}
  ELSE rows \cup {[id |-> s.id, title |-> s.title, content |-> s.content,
                   created_at |-> s.created_at]}

\* Mutation: UPDATE without its WHERE clause
UpdateRowsNoWhere(rows, s) == {UpdateRow(r, s) : r \in rows}

\* UPDATE notes SET ... WHERE id = ?: applied to the rows that match
UpdateRows(rows, s) == {IF r.id = s.id THEN UpdateRow(r, s) ELSE r : r \in rows}

\* Mutation: the WHERE clause inverted
DeleteRowsInverted(rows, id) == {r \in rows : r.id = id}

\* DELETE FROM notes WHERE id = ?
DeleteRows(rows, id) == {r \in rows : r.id # id}

\* number of rows a WHERE id = ? matches (this.changes)
Matching(rows, id) == Cardinality({r \in rows : r.id = id})

\* Mutation: ORDER BY created_at ASC, id DESC
RowBeforeAscending(a, b) ==
  \/ TextLess(a.created_at, b.created_at)
  \/ a.created_at = b.created_at /\ a.id > b.id

\* Mutation: ORDER BY created_at DESC alone, ties in rowid order
RowBeforeNoTieBreak(a, b) ==
  \/ TextLess(b.created_at, a.created_at)
  \/ a.created_at = b.created_at /\ a.id < b.id

\* ORDER BY created_at DESC, id DESC: does row a come before row b
RowBefore(a, b) ==
  \/ TextLess(b.created_at, a.created_at)
  \/ a.created_at = b.created_at /\ a.id > b.id

RECURSIVE OrderBy(_)
OrderBy(rows) ==
  IF rows = {} THEN <<>>
  ELSE LET first == CHOOSE r \in rows : \A o \in rows \ {r} : RowBefore(r, o)
       IN <<first>> \o OrderBy(rows \ {first})

\* SELECT ... FROM notes WHERE id = ?  (db.get: the row, or undefined)
SelectById(rows, id) ==
  IF \E r \in rows : r.id = id
  THEN <<CHOOSE r \in rows : r.id = id>>
  ELSE <<>>

\* ------------------------------------------------------------------ Init
Init ==
  /\ notes = {}
  /\ seq = 0
  /\ pc = [s \in Slots |-> "idle"]
  /\ handler = [s \in Slots |-> "none"]
  /\ req = [s \in Slots |-> NoReq]
  /\ stmt = [s \in Slots |-> NoStmt]
  /\ sent = NoSent
  /\ issued = 0
  /\ everIds = {}
  /\ deletedIds = {}
  /\ completed = {}
  /\ seen = [s \in Slots |-> {}]
  /\ hb = {}

\* ------------------------------------------------------ request arrival
\* Handlers and callbacks run on the one JavaScript thread: none starts while
\* a handler that has just been dispatched is still in its synchronous part.
ThreadFree == \A o \in Slots : pc[o] # "received"

\* Express parses the request and dispatches it to its route; the first free
\* slot takes it.
Receive(s) ==
  /\ ThreadFree
  /\ pc[s] = "idle"
  /\ \A o \in Slots : o < s => pc[o] # "idle"
  /\ issued < MaxRequests
  /\ \E h \in {"list", "create", "update", "delete"}, p \in IdParams,
        t \in BodyValues, c \in BodyValues :
       /\ h \in {"list", "create"} => p = NoReq.id
       /\ (h = "create" /\ ~IsBlank(t) /\ ~IsBlank(c)) =>
            seq + Cardinality({o \in Slots : stmt[o].kind = "insert"}) < MaxNotes
       /\ h \in {"list", "delete"} => t = Undefined /\ c = Undefined
       /\ handler' = [handler EXCEPT ![s] = h]
       /\ req' = [req EXCEPT ![s] = [id |-> p, title |-> t, content |-> c]]
       /\ seen' = [seen EXCEPT ![s] = IF h = "create" THEN completed ELSE {}]
  /\ pc' = [pc EXCEPT ![s] = "received"]
  /\ sent' = NoSent
  /\ issued' = issued + 1
  /\ UNCHANGED <<store, stmt, history>>

\* the two ways a handler leaves a step: res.status(..).json(..), or await.
\* e: the step is the callback of a statement that failed (err is set).
Reply(s, r, e) ==
  /\ pc' = [pc EXCEPT ![s] = "idle"]
  /\ sent' = [slot |-> s, handler |-> handler[s], req |-> req[s], stmt |-> stmt[s],
              resp |-> r, err |-> e]
  /\ handler' = [handler EXCEPT ![s] = "none"]
  /\ req' = [req EXCEPT ![s] = NoReq]
  /\ stmt' = [stmt EXCEPT ![s] = NoStmt]
  /\ seen' = [seen EXCEPT ![s] = {}]

Respond(s, r) == Reply(s, r, FALSE)

Await(s, st) ==
  /\ pc' = [pc EXCEPT ![s] = "await"]
  /\ stmt' = [stmt EXCEPT ![s] = st]
  /\ req' = [req EXCEPT ![s] = NoReq]
  /\ sent' = NoSent
  /\ UNCHANGED <<handler, seen>>

\* app.get("/api/notes"): up to await allAsync(...)
HandleList(s) ==
  /\ pc[s] = "received" /\ handler[s] = "list"
  /\ Await(s, [NoStmt EXCEPT !.kind = "all"])
  /\ UNCHANGED <<store, issued, history>>

\* Mutation: content is not validated
CreateOutcomeContentUnchecked(r, now) ==
  IF IsBlank(r.title) THEN [respond |-> TRUE, resp |-> ErrorResp(400, "title is required"), stmt |-> NoStmt]
  ELSE [respond |-> FALSE, resp |-> NoResp,
        stmt |-> [NoStmt EXCEPT !.kind = "insert", !.title = Trim(r.title.s),
                                !.content = Trim(r.content.s), !.created_at = now]]

\* app.post("/api/notes"): validation, nowIso(), up to await runAsync(INSERT)
CreateOutcome(r, now) ==
  IF IsBlank(r.title) THEN [respond |-> TRUE, resp |-> ErrorResp(400, "title is required"), stmt |-> NoStmt]
  ELSE IF IsBlank(r.content) THEN [respond |-> TRUE, resp |-> ErrorResp(400, "content is required"), stmt |-> NoStmt]
  ELSE [respond |-> FALSE, resp |-> NoResp,
        stmt |-> [NoStmt EXCEPT !.kind = "insert", !.title = Trim(r.title.s),
                                !.content = Trim(r.content.s), !.created_at = now]]

HandleCreate(s) ==
  /\ pc[s] = "received" /\ handler[s] = "create"
  /\ \E t \in Times :
       LET o == CreateOutcome(req[s], nowIso(t))
       IN IF o.respond
          THEN Respond(s, o.resp)
          ELSE Await(s, o.stmt)
  /\ UNCHANGED <<store, issued, history>>

\* Mutation: an empty body is not rejected
UpdateOutcomeEmptyAccepted(r) ==
  IF InvalidId(r.id) THEN [respond |-> TRUE, resp |-> ErrorResp(400, "invalid id"), stmt |-> NoStmt]
  ELSE IF r.title # Undefined /\ IsBlank(r.title)
    THEN [respond |-> TRUE, resp |-> ErrorResp(400, "title must be a non-empty string"), stmt |-> NoStmt]
  ELSE IF r.content # Undefined /\ IsBlank(r.content)
    THEN [respond |-> TRUE, resp |-> ErrorResp(400, "content must be a non-empty string"), stmt |-> NoStmt]
  ELSE [respond |-> FALSE, resp |-> NoResp,
        stmt |-> [NoStmt EXCEPT !.kind = "update", !.id = r.id.n,
                                !.setTitle = (r.title # Undefined),
                                !.title = Trim(r.title.s),
                                !.setContent = (r.content # Undefined),
                                !.content = Trim(r.content.s)]]

\* app.put("/api/notes/:id"): id check, body checks, up to await runAsync(UPDATE)
UpdateOutcome(r) ==
  IF InvalidId(r.id) THEN [respond |-> TRUE, resp |-> ErrorResp(400, "invalid id"), stmt |-> NoStmt]
  ELSE IF r.title # Undefined /\ IsBlank(r.title)
    THEN [respond |-> TRUE, resp |-> ErrorResp(400, "title must be a non-empty string"), stmt |-> NoStmt]
  ELSE IF r.content # Undefined /\ IsBlank(r.content)
    THEN [respond |-> TRUE, resp |-> ErrorResp(400, "content must be a non-empty string"), stmt |-> NoStmt]
  ELSE IF r.title = Undefined /\ r.content = Undefined
    THEN [respond |-> TRUE, resp |-> ErrorResp(400, "nothing to update"), stmt |-> NoStmt]
  ELSE [respond |-> FALSE, resp |-> NoResp,
        stmt |-> [NoStmt EXCEPT !.kind = "update", !.id = r.id.n,
                                !.setTitle = (r.title # Undefined),
                                !.title = Trim(r.title.s),
                                !.setContent = (r.content # Undefined),
                                !.content = Trim(r.content.s)]]

HandleUpdate(s) ==
  /\ pc[s] = "received" /\ handler[s] = "update"
  /\ LET o == UpdateOutcome(req[s])
     IN IF o.respond THEN Respond(s, o.resp) ELSE Await(s, o.stmt)
  /\ UNCHANGED <<store, issued, history>>

\* app.delete("/api/notes/:id"): id check, up to await runAsync(DELETE)
DeleteOutcome(r) ==
  IF InvalidId(r.id) THEN [respond |-> TRUE, resp |-> ErrorResp(400, "invalid id"), stmt |-> NoStmt]
  ELSE [respond |-> FALSE, resp |-> NoResp, stmt |-> [NoStmt EXCEPT !.kind = "delete", !.id = r.id.n]]

HandleDelete(s) ==
  /\ pc[s] = "received" /\ handler[s] = "delete"
  /\ LET o == DeleteOutcome(req[s])
     IN IF o.respond THEN Respond(s, o.resp) ELSE Await(s, o.stmt)
  /\ UNCHANGED <<store, issued, history>>

\* ------------------------------------------- statements and continuations
\* The store runs one pending statement atomically and its callback resumes
\* the awaiting handler, which runs to its next await or to its response.

\* a db.get result as a JSON body: the row, or undefined
RowBody(status, rows) ==
  [status |-> status, error |-> "",
   body |-> IF rows = <<>> THEN "undefined" ELSE "row", rows |-> rows]

\* GET: db.all(SELECT ... ORDER BY created_at DESC, id DESC); res.json(rows)
ListDone(s) ==
  /\ ThreadFree
  /\ pc[s] = "await" /\ stmt[s].kind = "all"
  /\ Respond(s, [status |-> 200, error |-> "", body |-> "rows", rows |-> OrderBy(notes)])
  /\ UNCHANGED <<store, issued, history>>

\* POST: db.run(INSERT ...) resolves with lastID; await getAsync(... WHERE id = lastID)
InsertDone(s) ==
  /\ ThreadFree
  /\ pc[s] = "await" /\ stmt[s].kind = "insert"
  /\ LET row == InsertRow(stmt[s])
     IN /\ notes' = notes \cup {row}
        /\ seq' = row.id
        /\ Await(s, [stmt[s] EXCEPT !.kind = "get", !.id = row.id])
        /\ everIds' = everIds \cup {row.id}
        /\ hb' = hb \cup {<<n, row.id>> : n \in seen[s]}
  /\ UNCHANGED <<issued, deletedIds, completed>>

\* POST: the read-back resolves; res.status(201).json(created)
CreatedDone(s) ==
  /\ ThreadFree
  /\ pc[s] = "await" /\ stmt[s].kind = "get" /\ handler[s] = "create"
  /\ Respond(s, RowBody(201, SelectById(notes, stmt[s].id)))
  /\ completed' = completed \cup {stmt[s].id}
  /\ UNCHANGED <<store, issued, everIds, deletedIds, hb>>

\* Mutation: the 404 is sent without return, the handler goes on to the read-back
UpdateDoneNoReturn(s) ==
  /\ ThreadFree
  /\ pc[s] = "await" /\ stmt[s].kind = "update"
  /\ notes' = UpdateRows(notes, stmt[s])
  /\ pc' = [pc EXCEPT ![s] = "await"]
  /\ stmt' = [stmt EXCEPT ![s] = [stmt[s] EXCEPT !.kind = "get"]]
  /\ sent' = IF Matching(notes, stmt[s].id) = 0
             THEN [slot |-> s, handler |-> handler[s], req |-> req[s], stmt |-> stmt[s],
                   resp |-> ErrorResp(404, "note not found"), err |-> FALSE]
             ELSE NoSent
  /\ UNCHANGED <<seq, issued, history, handler, req, seen>>

\* PUT: db.run(UPDATE ...) resolves with changes; 404 when 0, else the read-back
UpdateDone(s) ==
  /\ ThreadFree
  /\ pc[s] = "await" /\ stmt[s].kind = "update"
  /\ notes' = UpdateRows(notes, stmt[s])
  /\ IF Matching(notes, stmt[s].id) = 0
     THEN Respond(s, ErrorResp(404, "note not found"))
     ELSE Await(s, [stmt[s] EXCEPT !.kind = "get"])
  /\ UNCHANGED <<seq, issued, history>>

\* PUT: the read-back resolves; res.json(updated)
UpdatedDone(s) ==
  /\ ThreadFree
  /\ pc[s] = "await" /\ stmt[s].kind = "get" /\ handler[s] = "update"
  /\ Respond(s, RowBody(200, SelectById(notes, stmt[s].id)))
  /\ UNCHANGED <<store, issued, history>>

\* DELETE: db.run(DELETE ...) resolves with changes; 404 when 0, else { deleted: true }
DeleteDone(s) ==
  /\ ThreadFree
  /\ pc[s] = "await" /\ stmt[s].kind = "delete"
  /\ notes' = DeleteRows(notes, stmt[s].id)
  /\ Respond(s, IF Matching(notes, stmt[s].id) = 0
                THEN ErrorResp(404, "note not found")
                ELSE [status |-> 200, error |-> "", body |-> "deleted", rows |-> <<>>])
  /\ deletedIds' = IF Matching(notes, stmt[s].id) > 0
                   THEN deletedIds \cup {stmt[s].id} ELSE deletedIds
  /\ UNCHANGED <<seq, issued, everIds, completed, hb>>

\* Mutation: the failed statement is handed to the store again, nothing is sent
StmtFailedRetried(s) ==
  /\ ThreadFree
  /\ pc[s] = "await"
  /\ sent' = [NoSent EXCEPT !.slot = s, !.handler = handler[s], !.stmt = stmt[s],
                            !.err = TRUE]
  /\ UNCHANGED <<store, pc, handler, req, stmt, seen, issued, history>>

\* The statement fails (I/O error, busy, full) without effect: the promise
\* rejects; catch (e) { res.status(500).json({ error: e.message }) }
StmtFailed(s) ==
  /\ ThreadFree
  /\ pc[s] = "await"
  /\ Reply(s, ErrorResp(500, "store error"), TRUE)
  /\ UNCHANGED <<store, issued, history>>

\* ------------------------------------------------------- specification
Next ==
  \/ \E s \in Slots : Receive(s)
  \/ \E s \in Slots : HandleList(s)
  \/ \E s \in Slots : HandleCreate(s)
  \/ \E s \in Slots : HandleUpdate(s)
  \/ \E s \in Slots : HandleDelete(s)
  \/ \E s \in Slots : ListDone(s)
  \/ \E s \in Slots : InsertDone(s)
  \/ \E s \in Slots : CreatedDone(s)
  \/ \E s \in Slots : UpdateDone(s)
  \/ \E s \in Slots : UpdatedDone(s)
  \/ \E s \in Slots : DeleteDone(s)
  \/ \E s \in Slots : StmtFailed(s)

Spec == Init /\ [][Next]_vars

\* A handler that has been dispatched runs (the event loop is not starved),
\* and every statement handed to the store eventually completes, with a
\* result or with an error.
Dispatched(s) == HandleList(s) \/ HandleCreate(s) \/ HandleUpdate(s) \/ HandleDelete(s)

Completed(s) ==
  \/ ListDone(s) \/ InsertDone(s) \/ CreatedDone(s) \/ UpdateDone(s)
  \/ UpdatedDone(s) \/ DeleteDone(s) \/ StmtFailed(s)

Fairness == \A s \in Slots : WF_vars(Dispatched(s)) /\ WF_vars(Completed(s))

\* The same service, taking MaxFairRequests requests in all.
FairNext ==
  \/ \E s \in Slots : Receive(s) /\ issued < MaxFairRequests
  \/ \E s \in Slots : Dispatched(s)
  \/ \E s \in Slots : Completed(s)

FairSpec == Init /\ [][FairNext]_vars /\ Fairness

TypeOK ==
  /\ seq \in 0..MaxNotes
  /\ issued \in 0..MaxRequests
  /\ \A s \in Slots : pc[s] \in {"idle", "received", "await"}
  /\ \A r \in notes : r.id \in 1..seq

\* ------------------------------------------------------------ properties
\* vocabulary of the properties, stated without the handlers' own helpers
IdsOf(rows) == {r.id : r \in rows}

RowOf(rows, id) == CHOOSE r \in rows : r.id = id

\* a text with at least one non-whitespace character
HasText(x) == \E i \in 1..Len(x) : x[i] # " "

\* a body field that is missing, not a string, empty or whitespace-only
BlankField(v) == v.t # "string" \/ ~HasText(v.s)

\* x is raw without its leading and trailing whitespace
IsTrimOf(x, raw) ==
  \E i \in 1..(Len(raw) + 1), j \in 0..Len(raw) :
    /\ x = SubSeq(raw, i, j)
    /\ \A k \in 1..Len(raw) : (k < i \/ k > j) => raw[k] = " "
    /\ x # <<>> => x[1] # " " /\ x[Len(x)] # " "

\* the instant a created_at text denotes
TimeOf(iso) == iso[1] * 10 + iso[2]

\* position of the row with this id in a response's rows (0: absent)
IndexOf(rows, id) ==
  IF \E i \in 1..Len(rows) : rows[i].id = id
  THEN CHOOSE i \in 1..Len(rows) : rows[i].id = id
  ELSE 0

\* C1: in every reachable state every stored note has a title and a content
\* that are neither empty nor whitespace-only.
C1_StoredFieldsNonBlank ==
  \A r \in notes : HasText(r.title) /\ HasText(r.content)

\* a successful Update has just been answered while notes are stored
C1_Witness ==
  /\ sent.handler = "update" /\ sent.resp.status = 200
  /\ Cardinality(notes) >= 1

\* C2: an INSERT stores the created_at its Create took from the clock, and no
\* step changes the created_at of a stored note: as long as the note is
\* stored, its created_at is the one Create gave it.
C2_CreatedAtImmutable ==
  [][/\ \A r \in notes : \A q \in notes' : q.id = r.id => q.created_at = r.created_at
     /\ \A s \in Slots :
          (pc[s] = "await" /\ stmt[s].kind = "insert" /\ stmt'[s].kind = "get") =>
            /\ stmt'[s].id \in IdsOf(notes')
            /\ RowOf(notes', stmt'[s].id).created_at = stmt[s].created_at]_vars

\* an UPDATE setting both title and content has changed a stored note
C2_Witness ==
  \E s \in Slots :
    /\ pc[s] = "await" /\ handler[s] = "update" /\ stmt[s].kind = "get"
    /\ stmt[s].setTitle /\ stmt[s].setContent
    /\ stmt[s].id \in IdsOf(notes)

\* C3: a successful Update changes only the supplied fields: the statement
\* it issues sets exactly the fields present in the body, to their trimmed
\* values, and executing it leaves id and the other field of the target as
\* they were.
C3_UpdateOnlySupplied ==
  [][\A s \in Slots :
       /\ (pc[s] = "received" /\ handler[s] = "update" /\ pc'[s] = "await") =>
            /\ stmt'[s].kind = "update"
            /\ stmt'[s].setTitle = (req[s].title # Undefined)
            /\ stmt'[s].setContent = (req[s].content # Undefined)
            /\ stmt'[s].setTitle => IsTrimOf(stmt'[s].title, req[s].title.s)
            /\ stmt'[s].setContent => IsTrimOf(stmt'[s].content, req[s].content.s)
       /\ (pc[s] = "await" /\ stmt[s].kind = "update" /\ stmt'[s].kind = "get") =>
            /\ IdsOf(notes') = IdsOf(notes)
            /\ stmt[s].id \in IdsOf(notes)
            /\ LET old == RowOf(notes, stmt[s].id)
                   new == RowOf(notes', stmt[s].id)
               IN /\ new.title = IF stmt[s].setTitle THEN stmt[s].title ELSE old.title
                  /\ new.content = IF stmt[s].setContent THEN stmt[s].content ELSE old.content
  ]_vars

\* an Update that supplied only content has been answered with the row
C3_Witness ==
  /\ sent.handler = "update" /\ sent.resp.status = 200 /\ sent.resp.body = "row"
  /\ sent.stmt.setContent /\ ~sent.stmt.setTitle

\* C4: the id given to a newly inserted note is strictly greater than every
\* id assigned before, so it is never the id of a deleted note.
C4_IdsNeverReused ==
  [][\A r \in notes' :
       r.id \notin IdsOf(notes) =>
         /\ \A m \in everIds : r.id > m
         /\ r.id \notin deletedIds]_vars

\* a Create is answered with a note that is alone in the store, the note with
\* the highest id having been deleted
C4_Witness ==
  /\ sent.handler = "create" /\ sent.resp.status = 201 /\ sent.resp.body = "row"
  /\ deletedIds # {}
  /\ notes = {sent.resp.rows[1]}
  /\ \A d \in deletedIds : sent.resp.rows[1].id > d

\* C5: a List answered 200 returns exactly the stored notes, each once,
\* sorted by created_at descending and, for equal created_at, by id descending.
C5_ListSorted ==
  (sent.handler = "list" /\ sent.resp.status = 200) =>
    LET rows == sent.resp.rows
    IN /\ Len(rows) = Cardinality(notes)
       /\ {rows[i] : i \in 1..Len(rows)} = notes
       /\ \A i, j \in 1..Len(rows) :
            i < j =>
              \/ TimeOf(rows[i].created_at) > TimeOf(rows[j].created_at)
              \/ /\ TimeOf(rows[i].created_at) = TimeOf(rows[j].created_at)
                 /\ rows[i].id > rows[j].id

\* a List returns two notes with the same created_at
C5_Witness ==
  /\ sent.handler = "list" /\ sent.resp.status = 200
  /\ Len(sent.resp.rows) = 2
  /\ sent.resp.rows[1].created_at = sent.resp.rows[2].created_at

\* a response that reports a failed store operation
StoreFailure(r) == r.status = 500 /\ r.error = "store error"

\* C6 as claimed: whenever the Create of n1 was answered before the Create of
\* n2 arrived and a List returns both, n2 comes before n1.
C6_NewerFirst ==
  (sent.handler = "list" /\ sent.resp.status = 200) =>
    \A p \in hb :
      (IndexOf(sent.resp.rows, p[1]) > 0 /\ IndexOf(sent.resp.rows, p[2]) > 0) =>
        IndexOf(sent.resp.rows, p[2]) < IndexOf(sent.resp.rows, p[1])

\* C6, amended: the same, provided the created_at of n2 is not earlier than
\* that of n1 (the clock was not set back between the two Creates); equal
\* created_at included.
C6_NewerFirstUnlessClockSetBack ==
  (sent.handler = "list" /\ sent.resp.status = 200) =>
    \A p \in hb :
      LET i1 == IndexOf(sent.resp.rows, p[1])
          i2 == IndexOf(sent.resp.rows, p[2])
      IN (/\ i1 > 0 /\ i2 > 0
          /\ TimeOf(sent.resp.rows[i2].created_at) >= TimeOf(sent.resp.rows[i1].created_at))
           => i2 < i1

\* a List returns n1 and n2, created one after the other within one clock reading
C6_Witness ==
  /\ sent.handler = "list" /\ sent.resp.status = 200
  /\ \E p \in hb :
       LET i1 == IndexOf(sent.resp.rows, p[1])
           i2 == IndexOf(sent.resp.rows, p[2])
       IN /\ i1 > 0 /\ i2 > 0
          /\ sent.resp.rows[i1].created_at = sent.resp.rows[i2].created_at

\* C7: a Create whose title or content is missing, not a string, empty or
\* whitespace-only is answered 400 with a message naming a field that is at
\* fault, issues no statement, and leaves rows and id sequence as they were.
C7_CreateRejected ==
  [][\A s \in Slots :
       (/\ pc[s] = "received" /\ handler[s] = "create" /\ pc'[s] # "received"
        /\ BlankField(req[s].title) \/ BlankField(req[s].content)) =>
         /\ sent'.slot = s /\ sent'.resp.status = 400
         /\ \/ sent'.resp.error = "title is required" /\ BlankField(req[s].title)
            \/ sent'.resp.error = "content is required" /\ BlankField(req[s].content)
         /\ pc'[s] = "idle" /\ stmt'[s] = NoStmt
         /\ notes' = notes /\ seq' = seq]_vars

\* a Create with a good title and a bad content has been rejected while a
\* note is stored
C7_Witness ==
  /\ sent.handler = "create" /\ sent.resp.status = 400
  /\ sent.resp.error = "content is required"
  /\ notes # {}

\* C8: an UPDATE issued by a valid Update request and executed when no note
\* has its id leaves the store unchanged and the request is answered 404.
C8_UpdateNotFound ==
  [][\A s \in Slots :
       (/\ pc[s] = "await" /\ stmt[s].kind = "update" /\ pc'[s] # pc[s]
        /\ stmt[s].id \notin IdsOf(notes)
        /\ ~StoreFailure(sent'.resp)) =>
         /\ sent'.slot = s /\ sent'.resp.status = 404
         /\ notes' = notes /\ seq' = seq]_vars

\* an Update of an id that matches none of the stored notes is answered 404
C8_Witness ==
  /\ sent.handler = "update" /\ sent.resp.status = 404
  /\ notes # {}
  /\ sent.stmt.id \notin deletedIds

\* C9: an Update whose body has neither title nor content is answered 400
\* without a statement being issued and without a change to the store, for an
\* invalid id, an id that is stored and an id that is not.
C9_EmptyUpdateRejected ==
  [][\A s \in Slots :
       (/\ pc[s] = "received" /\ handler[s] = "update" /\ pc'[s] # "received"
        /\ req[s].title = Undefined /\ req[s].content = Undefined) =>
         /\ sent'.slot = s /\ sent'.resp.status = 400
         /\ pc'[s] = "idle" /\ stmt'[s] = NoStmt
         /\ notes' = notes /\ seq' = seq]_vars

\* an Update with a valid id and an empty body has been answered, with notes stored
C9_Witness ==
  /\ sent.handler = "update" /\ sent.resp.status = 400
  /\ sent.resp.error = "nothing to update"
  /\ notes # {}

\* C10 as claimed: once an id has been deleted, every Update or Delete
\* request for it is answered 404 (a failing store operation aside).
C10_DeletedAlways404 ==
  [][\A s \in Slots :
       (/\ handler[s] \in {"update", "delete"} /\ sent'.slot = s
        /\ \/ pc[s] = "received" /\ req[s].id.kind = "int" /\ req[s].id.n \in deletedIds
           \/ /\ pc[s] = "await" /\ stmt[s].kind \in {"update", "delete"}
              /\ stmt[s].id \in deletedIds
        /\ ~StoreFailure(sent'.resp)) =>
         sent'.resp.status = 404]_vars

\* C10, amended: a deleted id is in no later state of the store and in no
\* later List; a later Delete of it, and a later Update of it whose body is
\* valid, is answered 404 (a failing store operation aside).
C10_DeletedStaysDeleted ==
  [][/\ deletedIds' \cap IdsOf(notes') = {}
     /\ (sent'.handler = "list" /\ sent'.resp.status = 200) =>
          \A i \in 1..Len(sent'.resp.rows) : sent'.resp.rows[i].id \notin deletedIds
     /\ \A s \in Slots :
          (/\ pc[s] = "await" /\ stmt[s].kind \in {"update", "delete"} /\ pc'[s] # pc[s]
           /\ stmt[s].id \in deletedIds
           /\ ~StoreFailure(sent'.resp)) =>
            sent'.slot = s /\ sent'.resp.status = 404]_vars

\* a second Delete of a deleted id has been answered 404
C10_Witness ==
  /\ sent.handler = "delete" /\ sent.resp.status = 404
  /\ sent.stmt.id \in deletedIds

\* C11 as claimed: a valid Create issues an INSERT of the trimmed title and
\* content with a created_at read off the clock, and the object it returns
\* with 201 is the note with the id that INSERT assigned, carrying exactly
\* those values, whatever other requests ran between INSERT and read-back.
C11_CreateReturnsOwnNote ==
  [][\A s \in Slots :
       /\ (pc[s] = "received" /\ handler[s] = "create" /\ pc'[s] = "await") =>
            /\ IsTrimOf(stmt'[s].title, req[s].title.s)
            /\ IsTrimOf(stmt'[s].content, req[s].content.s)
            /\ TimeOf(stmt'[s].created_at) \in Times
       /\ (handler[s] = "create" /\ sent'.slot = s /\ sent'.resp.status = 201) =>
            /\ sent'.resp.body = "row"
            /\ sent'.resp.rows[1].id = stmt[s].id
            /\ sent'.resp.rows[1].id > 0
            /\ sent'.resp.rows[1].title = stmt[s].title
            /\ sent'.resp.rows[1].content = stmt[s].content
            /\ sent'.resp.rows[1].created_at = stmt[s].created_at]_vars

\* C12 as claimed: an Update answered 200 returns the row of the note it
\* targeted, with every supplied field equal to the trimmed value it supplied,
\* whatever other requests ran between UPDATE and read-back.
C12_UpdateReturnsOwnValues ==
  (sent.handler = "update" /\ sent.resp.status = 200) =>
    /\ sent.resp.body = "row"
    /\ sent.resp.rows[1].id = sent.stmt.id
    /\ sent.stmt.setTitle => sent.resp.rows[1].title = sent.stmt.title
    /\ sent.stmt.setContent => sent.resp.rows[1].content = sent.stmt.content

\* the request handled in slot s has had a write executed: the read-back is
\* issued only after its INSERT, or its UPDATE of a matching row, has run
HasWritten(s) ==
  pc[s] = "await" /\ handler[s] \in {"create", "update"} /\ stmt[s].kind = "get"

\* C13 as claimed: a Create, Update or Delete that is answered 400, 404 or
\* 500 has written nothing: no write of that request was executed before the
\* answer, and the step that answers leaves rows and id sequence as they were.
C13_NoPartialFailure ==
  [][\A s \in Slots :
       (/\ handler[s] \in {"create", "update", "delete"} /\ sent'.slot = s
        /\ sent'.resp.status \in {400, 404, 500}) =>
         /\ ~HasWritten(s)
         /\ notes' = notes /\ seq' = seq]_vars

\* C14: every request gets exactly one response: a response is written only
\* for a request that is being handled and ends its handling, and every
\* request that has been received is eventually answered.
C14_ExactlyOneResponse ==
  /\ [][\A s \in Slots :
          /\ sent'.slot = s => (pc[s] # "idle" /\ pc'[s] = "idle" /\ sent'.resp.status # 0)
          /\ (pc[s] # "idle" /\ pc'[s] = "idle") => sent'.slot = s]_vars
  /\ \A s \in Slots : (pc[s] = "received") ~> (sent.slot = s)

\* a Create whose read-back failed has been answered (through the catch
\* block) while the other request is still waiting for the store
C14_Witness ==
  /\ sent.slot # 0 /\ sent.err /\ sent.handler = "create" /\ sent.stmt.kind = "get"
  /\ \E o \in Slots : pc[o] = "await"

\* C15: an Update or Delete whose id is a non-integer, negative or zero is
\* answered 400 "invalid id" by the handler's first step, whatever its body,
\* without a statement being issued and without a change to the store.
C15_InvalidIdRejectedFirst ==
  [][\A s \in Slots :
       (/\ pc[s] = "received" /\ handler[s] \in {"update", "delete"} /\ pc'[s] # "received"
        /\ req[s].id.kind # "int" \/ req[s].id.n < 1) =>
         /\ sent'.slot = s /\ sent'.resp.status = 400 /\ sent'.resp.error = "invalid id"
         /\ pc'[s] = "idle" /\ stmt'[s] = NoStmt
         /\ notes' = notes /\ seq' = seq]_vars

\* an Update of id 0 whose title is also bad (present but blank) has been
\* answered "invalid id" while a note is stored
C15_Witness ==
  /\ sent.handler = "update" /\ sent.resp.status = 400 /\ sent.resp.error = "invalid id"
  /\ sent.req.id.kind = "int" /\ sent.req.id.n = 0
  /\ sent.req.title # Undefined /\ BlankField(sent.req.title)
  /\ notes # {}

\* C16: when a statement of a request fails, the step that takes the error
\* answers that request 500 with the error, ends its handling with no
\* statement pending (no retry, no further statement), and changes nothing
\* in the store.
C16_StoreFailureIs500 ==
  [][\A s \in Slots :
       (sent'.err /\ sent'.slot = s) =>
         /\ pc[s] = "await" /\ stmt[s].kind # "none"
         /\ sent'.resp.status = 500 /\ sent'.resp.body = "error"
         /\ pc'[s] = "idle" /\ stmt'[s] = NoStmt
         /\ notes' = notes /\ seq' = seq]_vars

\* the UPDATE of a stored note has failed and its request has been answered
\* 500 while another request is waiting for the store
C16_Witness ==
  /\ sent.err /\ sent.resp.status = 500
  /\ sent.handler = "update" /\ sent.stmt.kind = "update"
  /\ sent.stmt.id \in IdsOf(notes)
  /\ \E o \in Slots : pc[o] = "await"

\* C17: a step changes the rows only by executing a write statement, and then
\* one row at most: an INSERT adds one row and keeps every stored row as it
\* is (whatever their titles and contents), an UPDATE keeps the set of ids and
\* every row but the one with its id, a DELETE removes the row with its id
\* and nothing else; a List, a read-back, a failing statement and the
\* handlers' own steps change nothing.
C17_WritesTouchOneRow ==
  [][\A s \in Slots :
       LET ran == pc[s] = "await" /\ stmt'[s] # stmt[s] /\ ~sent'.err
       IN /\ (ran /\ stmt[s].kind = "insert") =>
               /\ notes \subseteq notes'
               /\ Cardinality(notes') = Cardinality(notes) + 1
          /\ (ran /\ stmt[s].kind = "update") =>
               /\ IdsOf(notes') = IdsOf(notes)
               /\ \A r \in notes : r.id # stmt[s].id => r \in notes'
          /\ (ran /\ stmt[s].kind = "delete") =>
               /\ notes' \subseteq notes
               /\ \A r \in notes \ notes' : r.id = stmt[s].id
               /\ stmt[s].id \notin IdsOf(notes')
          /\ (ran /\ stmt[s].kind \in {"all", "get"}) => notes' = notes
          /\ sent'.err => notes' = notes
          /\ (\A o \in Slots : pc[o] # "await" \/ stmt'[o] = stmt[o]) => notes' = notes
  ]_vars

\* a Create whose title and content duplicate a stored note's has been
\* answered 201 and both notes are stored
C17_Witness ==
  /\ sent.handler = "create" /\ sent.resp.status = 201 /\ sent.resp.body = "row"
  /\ \E a \in notes, b \in notes :
       /\ a.id # b.id /\ b.id = sent.stmt.id
       /\ a.title = b.title /\ a.content = b.content

\* an Update of note id that supplied both title and content is in flight in slot o
BothFieldsUpdate(o, id) ==
  /\ pc[o] = "await" /\ handler[o] = "update" /\ stmt[o].kind \in {"update", "get"}
  /\ stmt[o].id = id /\ stmt[o].setTitle /\ stmt[o].setContent

\* C18: while two Updates of one stored note, each supplying title and
\* content, are in flight, the step that executes the UPDATE of either leaves
\* the note with the title and the content of that request, and no step but
\* the execution of a write statement changes the title or the content: the
\* note holds the pair of the request whose UPDATE ran last, never a mix.
C18_ConcurrentUpdatesAtomic ==
  [][\A s \in Slots, o \in Slots :
       (/\ s # o
        /\ BothFieldsUpdate(s, stmt[s].id) /\ BothFieldsUpdate(o, stmt[s].id)
        /\ stmt[s].id \in IdsOf(notes)) =>
         LET id == stmt[s].id
             old == RowOf(notes, id)
         IN IF stmt[s].kind = "update" /\ stmt'[s].kind = "get"
            THEN /\ id \in IdsOf(notes')
                 /\ RowOf(notes', id).title = stmt[s].title
                 /\ RowOf(notes', id).content = stmt[s].content
            ELSE \/ \E w \in Slots \ {s} :
                      stmt[w].kind \in {"update", "delete"} /\ stmt'[w] # stmt[w]
                 \/ \A q \in notes' :
                      q.id = id => q.title = old.title /\ q.content = old.content
  ]_vars

\* both Updates of the same note, with different titles and different
\* contents, have had their UPDATE executed; the note holds the pair of one
C18_Witness ==
  \E s \in Slots, o \in Slots :
    /\ s # o
    /\ BothFieldsUpdate(s, stmt[s].id) /\ BothFieldsUpdate(o, stmt[s].id)
    /\ stmt[s].kind = "get" /\ stmt[o].kind = "get"
    /\ stmt[s].title # stmt[o].title /\ stmt[s].content # stmt[o].content
    /\ stmt[s].id \in IdsOf(notes)
    /\ RowOf(notes, stmt[s].id).title = stmt[s].title
    /\ RowOf(notes, stmt[s].id).content = stmt[s].content

====
